---- MODULE Spec2Model ----
(***************************************************************************)
(* Downloader.tsx: a React function component that, when it is mounted,    *)
(* builds a Blob from the host's args, makes an object URL for it, clicks  *)
(* a temporary anchor, revokes the URL, reports 1 to the host and asks for *)
(* frame height 0.                                                         *)
(*                                                                         *)
(* The model runs the mount effect statement by statement.  The browser's  *)
(* blob URL store, the children of document.body and the calls made to the *)
(* host are state; the host's render events (mount, re-render with new     *)
(* args, unmount) are the environment.  JavaScript runs a callback to      *)
(* completion, so host events are taken only when no statement is pending. *)
(***************************************************************************)
EXTENDS Integers, Sequences, FiniteSets

\* ------------------------------------------------------------------ bounds
MaxMounts == 2
MaxRenders == 2

\* The args (data, filename, content_type) the host passes in the model: each
\* component takes two values.
Args ==
    { [data |-> "d1", filename |-> "a.csv", content_type |-> "text/csv"],
      [data |-> "d2", filename |-> "b.pdf", content_type |-> "application/pdf"] }

NoArgs == [data |-> "", filename |-> "", content_type |-> ""]
NoBlob == [parts |-> "", type |-> ""]
NoLink == [id |-> 0, href |-> 0, download |-> ""]
\* document.body before any mount: the page's own root element (id 0); the
\* anchors the component makes have the id of their mount.
RootOnly == << [id |-> 0, href |-> 0, download |-> ""] >>

VARIABLES
    args,        \* props.args of the latest render
    rendered,    \* the element returned by the latest render
    mounted,     \* a Downloader instance is mounted
    mounts,      \* number of mounts so far; the current instance is mount `mounts`
    renders,     \* number of re-renders so far
    closure,     \* data, filename, content_type closed over by the effect to run
    ei,          \* statement of the effect callback to run next (0: not running)
    ti,          \* statement of triggerDownload to run next (0: not running)
    suspended,   \* statement at which triggerDownload waits at an await (0: none)
    promise,     \* the promise returned by triggerDownload()
    handlers,    \* the handlers attached to that promise
    effectError, \* an exception left the effect callback
    blob, url, link,   \* locals of triggerDownload
    urlStore,    \* the browser's blob URL store: live object URLs
    nextUrl,     \* the next object URL the browser hands out
    body,        \* children of document.body, in order
    bodyBefore,  \* children of document.body when the current mount began
    mountArgs,   \* the args the host passed at each mount, in order
    downloads,   \* what each link.click() made the browser save
    log          \* the calls made to the browser and host, in order

control == <<ei, ti, suspended, promise>>
locals == <<blob, url, link>>
browser == <<urlStore, nextUrl, body, downloads>>
hostside == <<args, rendered, mounted, mounts, renders, closure, bodyBefore,
              mountArgs>>
vars == <<args, rendered, mounted, mounts, renders, closure, ei, ti, suspended,
          promise, handlers, effectError, blob, url, link, urlStore, nextUrl,
          body, bodyBefore, mountArgs, downloads, log>>

\* ------------------------------------------------------------- the program

\* Line 22: const {data, filename, content_type} = args.
Destructure(a) ==
    [data |-> a.data, filename |-> a.filename, content_type |-> a.content_type]

\* Lines 43-45: the element the component returns.
RenderedElement ==
    [tag |-> "div", visibility |-> "hidden", height |-> 0, width |-> 0,
     padding |-> 0, margin |-> 0]

\* triggerDownload without line 34: the URL is never revoked.
TdbNoRevoke ==
    << "Blob", "createObjectURL", "createElement", "href", "download",
       "appendChild", "click", "removeChild", "setComponentValue" >>

\* triggerDownload with line 34 moved before line 31: the URL is revoked
\* before the click.
TdbRevokeBeforeClick ==
    << "Blob", "createObjectURL", "createElement", "href", "download",
       "revokeObjectURL", "appendChild", "click", "removeChild",
       "setComponentValue" >>

\* triggerDownload without line 33: the anchor stays in document.body.
TdbNoRemove ==
    << "Blob", "createObjectURL", "createElement", "href", "download",
       "appendChild", "click", "revokeObjectURL", "setComponentValue" >>

\* Lines 26-35: the statements of triggerDownload, in order.
TriggerDownloadBody ==
    << "Blob", "createObjectURL", "createElement", "href", "download",
       "appendChild", "click", "removeChild", "revokeObjectURL",
       "setComponentValue" >>

\* triggerDownload with an await before line 35.
AwaitBeforeReport == {"setComponentValue"}

\* Lines 25-36: the statements of triggerDownload that are preceded by an
\* await.  The function is async but awaits nothing.
AwaitBefore == {}

\* triggerDownload declared without async.
NotAsync == FALSE

\* Line 25: triggerDownload is an async function, so an exception in its body
\* rejects the promise it returns instead of reaching the caller.
IsAsync == TRUE

\* The effect without line 40.
EffectBodyNoFrameHeight == << "triggerDownload", "then" >>

\* Lines 39-40: the statements of the effect callback, in order.
EffectBody == << "triggerDownload", "then", "setFrameHeight" >>

\* Line 39: .then() is called with no arguments.
ThenHandlers == {}

\* useEffect without a dependency list: the effect runs after every render.
DepsOmitted(old, new) == TRUE

\* Line 41: the dependency list is [], so no re-render finds a dependency
\* changed and the effect runs after the first render only.
DepsChanged(old, new) == FALSE

\* Line 26: new Blob([data], {type: content_type}).
NewBlob(c) == [parts |-> c.data, type |-> c.content_type]

\* link.download = content_type.
LinkDownloadContentType(c) == c.content_type

\* Line 30: link.download = filename.
LinkDownload(c) == c.filename

\* setComponentValue called with a value that depends on the data.
ComponentValueOfData(c) == IF c.data = "d1" THEN 1 ELSE 2

\* Line 35: the argument of Streamlit.setComponentValue.
ComponentValue(c) == 1

\* Line 40: the argument of Streamlit.setFrameHeight.
FrameHeight(c) == 0

\* Browser calls of triggerDownload that may throw.
CanThrow ==
    {"Blob", "createObjectURL", "appendChild", "click", "removeChild",
     "revokeObjectURL"}

\* --------------------------------------------------------------- control

Idle == ei = 0 /\ ti = 0

\* The statement to run next.
Cur ==
    IF ti > 0 /\ ti <= Len(TriggerDownloadBody) THEN TriggerDownloadBody[ti]
    ELSE IF ei > 0 /\ ei <= Len(EffectBody) THEN EffectBody[ei]
    ELSE "idle"

\* Control after effect statement e, with triggerDownload waiting at s (0: not
\* waiting).  When the effect returns, a waiting continuation runs next, as a
\* microtask.
EffectAdvance(e, s) ==
    IF e < Len(EffectBody)
    THEN [ei |-> e + 1, ti |-> 0, suspended |-> s]
    ELSE [ei |-> 0, ti |-> s, suspended |-> 0]

\* triggerDownload leaves (returns, throws or waits at s): control goes back
\* to the effect if it made the call and is still on the stack.
Leave(s) ==
    IF ei > 0 THEN EffectAdvance(ei, s)
    ELSE [ei |-> 0, ti |-> IF s > 0 THEN s ELSE 0, suspended |-> 0]

SetControl(c, p) ==
    /\ ei' = c.ei
    /\ ti' = c.ti
    /\ suspended' = c.suspended
    /\ promise' = p

\* Reaching statement n of triggerDownload.
Enter(n) ==
    IF n > Len(TriggerDownloadBody) THEN SetControl(Leave(0), "fulfilled")
    ELSE IF TriggerDownloadBody[n] \in AwaitBefore /\ ei > 0
         THEN SetControl(Leave(n), "pending")
    ELSE SetControl([ei |-> ei, ti |-> n, suspended |-> 0], "pending")

\* A statement of triggerDownload completed.
TdNext == Enter(ti + 1)

\* A statement of the effect completed.
EffNext ==
    SetControl(EffectAdvance(ei, suspended), promise)

Event(op, n) == [op |-> op, mount |-> mounts, n |-> n]

\* ---------------------------------------------------------------- actions

Init ==
    /\ args = NoArgs
    /\ rendered = [tag |-> "none", visibility |-> "", height |-> 0, width |-> 0,
                   padding |-> 0, margin |-> 0]
    /\ mounted = FALSE
    /\ mounts = 0
    /\ renders = 0
    /\ closure = NoArgs
    /\ ei = 0
    /\ ti = 0
    /\ suspended = 0
    /\ promise = "none"
    /\ handlers = {}
    /\ effectError = FALSE
    /\ blob = NoBlob
    /\ url = 0
    /\ link = NoLink
    /\ urlStore = {}
    /\ nextUrl = 1
    /\ body = RootOnly
    /\ bodyBefore = body
    /\ mountArgs = << >>
    /\ downloads = << >>
    /\ log = << >>

\* The first render of a new instance (lines 20-22, 43-45) and its commit:
\* the effect of lines 38-41 is due.
Mount(a) ==
    /\ ~mounted
    /\ Idle
    /\ mounts < MaxMounts
    /\ mounted' = TRUE
    /\ mounts' = mounts + 1
    /\ args' = a
    /\ rendered' = RenderedElement
    /\ closure' = Destructure(a)
    /\ bodyBefore' = body
    /\ mountArgs' = Append(mountArgs, a)
    /\ SetControl([ei |-> 1, ti |-> 0, suspended |-> 0], "none")
    /\ handlers' = {}
    /\ log' = Append(log, [op |-> "mount", mount |-> mounts + 1, n |-> 0])
    /\ UNCHANGED <<renders, effectError, locals, browser>>

\* A later render event of the host with args a: the function body runs again
\* (lines 20-22, 43-45); the effect runs again only if a dependency changed.
Rerender(a) ==
    /\ mounted
    /\ Idle
    /\ renders < MaxRenders
    /\ renders' = renders + 1
    /\ args' = a
    /\ rendered' = RenderedElement
    /\ log' = Append(log, Event("render", 0))
    /\ IF DepsChanged(args, a)
       THEN /\ closure' = Destructure(a)
            /\ SetControl([ei |-> 1, ti |-> 0, suspended |-> 0], "none")
            /\ handlers' = {}
       ELSE UNCHANGED <<closure, control, handlers>>
    /\ UNCHANGED <<mounted, mounts, bodyBefore, mountArgs, effectError, locals,
                   browser>>

\* The host removes the instance.  The effect returns no cleanup function.
Unmount ==
    /\ mounted
    /\ Idle
    /\ mounted' = FALSE
    /\ log' = Append(log, Event("unmount", 0))
    /\ UNCHANGED <<args, rendered, mounts, renders, closure, bodyBefore, mountArgs,
                   control, handlers, effectError, locals, browser>>

\* Line 39: triggerDownload() is called.
CallTriggerDownload ==
    /\ Cur = "triggerDownload"
    /\ ti = 0
    /\ Enter(1)
    /\ UNCHANGED <<hostside, handlers, effectError, locals, browser, log>>

\* Line 26.
StmtBlob ==
    /\ Cur = "Blob"
    /\ blob' = NewBlob(closure)
    /\ TdNext
    /\ UNCHANGED <<hostside, handlers, effectError, url, link, browser, log>>

\* Line 27.
StmtCreateObjectURL ==
    /\ Cur = "createObjectURL"
    /\ url' = nextUrl
    /\ nextUrl' = nextUrl + 1
    /\ urlStore' = urlStore \cup {[url |-> nextUrl, blob |-> blob]}
    /\ log' = Append(log, Event("createObjectURL", nextUrl))
    /\ TdNext
    /\ UNCHANGED <<hostside, handlers, effectError, blob, link, body, downloads>>

\* Line 28.
StmtCreateElement ==
    /\ Cur = "createElement"
    /\ link' = [id |-> mounts, href |-> 0, download |-> ""]
    /\ TdNext
    /\ UNCHANGED <<hostside, handlers, effectError, blob, url, browser, log>>

\* Line 29.
StmtHref ==
    /\ Cur = "href"
    /\ link' = [link EXCEPT !.href = url]
    /\ TdNext
    /\ UNCHANGED <<hostside, handlers, effectError, blob, url, browser, log>>

\* Line 30.
StmtDownload ==
    /\ Cur = "download"
    /\ link' = [link EXCEPT !.download = LinkDownload(closure)]
    /\ TdNext
    /\ UNCHANGED <<hostside, handlers, effectError, blob, url, browser, log>>

\* Line 31.
StmtAppendChild ==
    /\ Cur = "appendChild"
    /\ body' = Append(body, link)
    /\ log' = Append(log, Event("appendChild", link.href))
    /\ TdNext
    /\ UNCHANGED <<hostside, handlers, effectError, locals, urlStore, nextUrl,
                   downloads>>

\* Line 32: the browser saves what the anchor's href resolves to in the blob
\* URL store, under the anchor's download name.
StmtClick ==
    /\ Cur = "click"
    /\ LET hit == {e \in urlStore : e.url = link.href}
           live == hit # {}
           attached == \E i \in 1..Len(body) : body[i].id = link.id
       IN downloads' = Append(downloads,
              [mount |-> mounts, href |-> link.href, download |-> link.download,
               live |-> live, attached |-> attached,
               blob |-> IF live THEN (CHOOSE e \in hit : TRUE).blob ELSE NoBlob])
    /\ log' = Append(log, Event("click", link.href))
    /\ TdNext
    /\ UNCHANGED <<hostside, handlers, effectError, locals, urlStore, nextUrl, body>>

\* Line 33.
StmtRemoveChild ==
    /\ Cur = "removeChild"
    /\ body' = SelectSeq(body, LAMBDA c : c.id # link.id)
    /\ log' = Append(log, Event("removeChild", link.href))
    /\ TdNext
    /\ UNCHANGED <<hostside, handlers, effectError, locals, urlStore, nextUrl,
                   downloads>>

\* Line 34.
StmtRevokeObjectURL ==
    /\ Cur = "revokeObjectURL"
    /\ urlStore' = {e \in urlStore : e.url # url}
    /\ log' = Append(log, Event("revokeObjectURL", url))
    /\ TdNext
    /\ UNCHANGED <<hostside, handlers, effectError, locals, nextUrl, body, downloads>>

\* Line 35.
StmtSetComponentValue ==
    /\ Cur = "setComponentValue"
    /\ log' = Append(log, Event("setComponentValue", ComponentValue(closure)))
    /\ TdNext
    /\ UNCHANGED <<hostside, handlers, effectError, locals, browser>>

\* Line 39: .then() on the promise triggerDownload returned.
StmtThen ==
    /\ Cur = "then"
    /\ handlers' = ThenHandlers
    /\ EffNext
    /\ UNCHANGED <<hostside, effectError, locals, browser, log>>

\* Line 40.
StmtSetFrameHeight ==
    /\ Cur = "setFrameHeight"
    /\ log' = Append(log, Event("setFrameHeight", FrameHeight(closure)))
    /\ EffNext
    /\ UNCHANGED <<hostside, handlers, effectError, locals, browser>>

\* A browser call of triggerDownload throws instead of taking effect.  In an
\* async function the exception rejects the returned promise and the caller
\* goes on; otherwise it leaves the effect callback.
Throw ==
    /\ ti > 0
    /\ Cur \in CanThrow
    /\ log' = Append(log, Event("throw", ti))
    /\ IF IsAsync
       THEN /\ SetControl(Leave(0), "rejected")
            /\ UNCHANGED effectError
       ELSE /\ SetControl([ei |-> 0, ti |-> 0, suspended |-> 0], "none")
            /\ effectError' = TRUE
    /\ UNCHANGED <<hostside, handlers, locals, browser>>

Next ==
    \/ \E a \in Args : Mount(a)
    \/ \E a \in Args : Rerender(a)
    \/ Unmount
    \/ CallTriggerDownload
    \/ StmtBlob
    \/ StmtCreateObjectURL
    \/ StmtCreateElement
    \/ StmtHref
    \/ StmtDownload
    \/ StmtAppendChild
    \/ StmtClick
    \/ StmtRemoveChild
    \/ StmtRevokeObjectURL
    \/ StmtSetComponentValue
    \/ StmtThen
    \/ StmtSetFrameHeight

\* The browser calls succeed, as the component's design assumes.
Spec == Init /\ [][Next]_vars

NextThrow == Next \/ Throw

\* Any browser call of triggerDownload may throw.
SpecThrow == Init /\ [][NextThrow]_vars

\* ------------------------------------------------------------ properties

\* Positions in the log of the calls `op` made by mount m.
Idx(op, m) == {i \in 1..Len(log) : log[i].op = op /\ log[i].mount = m}

Count(op, m) == Cardinality(Idx(op, m))

\* The effect of mount m has run to its end.
Finished(m) == m < mounts \/ (m = mounts /\ Idle)

\* The downloads mount m triggered.
DownloadsOf(m) == {k \in 1..Len(downloads) : downloads[k].mount = m}

\* The log restricted to the calls of mount m whose op is in ops.
CallsOf(m, ops) == SelectSeq(log, LAMBDA e : e.mount = m /\ e.op \in ops)

IsPrefix(s, t) == Len(s) <= Len(t) /\ \A i \in 1..Len(s) : s[i] = t[i]

Ops(s) == [i \in 1..Len(s) |-> s[i].op]

\* C1: each mount triggers exactly one download action (one link.click()):
\* never a second one, whatever re-renders follow with the same or other
\* args, and never zero once the mount effect has run.
C1_ExactlyOneDownloadPerMount ==
    \A m \in 1..mounts :
        /\ Count("click", m) <= 1
        /\ Cardinality(DownloadsOf(m)) = Count("click", m)
        /\ Finished(m) => Count("click", m) = 1

\* Two mounts have run, re-renders with other args have followed, and each
\* mount has its one download.
C1_Witness ==
    /\ mounts = 2
    /\ renders = 2
    /\ Idle
    /\ Destructure(args) # closure
    /\ \A m \in 1..2 : Count("click", m) = 1

\* C2: every object URL a mount creates is revoked by that mount, so when no
\* mount is running the set of live object URLs is empty.
C2_UrlsRevoked ==
    /\ \A m \in 1..mounts :
           Finished(m) =>
               \A i \in Idx("createObjectURL", m) :
                   \E j \in Idx("revokeObjectURL", m) : j > i /\ log[j].n = log[i].n
    /\ Idle => urlStore = {}

\* Two mounts have each created an object URL and none is live.
C2_Witness ==
    /\ Idle
    /\ Count("createObjectURL", 1) = 1
    /\ Count("createObjectURL", 2) = 1
    /\ urlStore = {}

\* C3: the value reported through setComponentValue is always 1, whatever
\* the args are, and each mount reports it exactly once.
C3_ReportsOneOnce ==
    /\ \A i \in 1..Len(log) : log[i].op = "setComponentValue" => log[i].n = 1
    /\ \A m \in 1..mounts :
           /\ Count("setComponentValue", m) <= 1
           /\ Finished(m) => Count("setComponentValue", m) = 1

\* Two mounts with different data, filename and content_type have both
\* reported.
C3_Witness ==
    /\ mounts = 2
    /\ Idle
    /\ mountArgs[1].data # mountArgs[2].data
    /\ mountArgs[1].filename # mountArgs[2].filename
    /\ mountArgs[1].content_type # mountArgs[2].content_type
    /\ Count("setComponentValue", 1) = 1
    /\ Count("setComponentValue", 2) = 1

\* C4: every mount requests frame height 0 and no other height is ever
\* requested; the element rendered is hidden, with height 0 and width 0.
C4_ZeroVisibleSpace ==
    /\ \A i \in 1..Len(log) : log[i].op = "setFrameHeight" => log[i].n = 0
    /\ \A m \in 1..mounts : Finished(m) => Count("setFrameHeight", m) >= 1
    /\ mounts > 0 =>
           /\ rendered.visibility = "hidden"
           /\ rendered.height = 0
           /\ rendered.width = 0

\* Two mounts and a re-render have happened, and each mount has requested
\* height 0.
C4_Witness ==
    /\ mounts = 2
    /\ renders >= 1
    /\ Idle
    /\ \A m \in 1..2 : \E i \in Idx("setFrameHeight", m) : log[i].n = 0

\* C5: within a mount the order is createObjectURL, link.click(),
\* revokeObjectURL, on the same URL; the URL is live at the click; and nothing
\* but the anchor's attach, click and detach lies between create and revoke.
C5_CreateClickRevoke ==
    /\ \A m \in 1..mounts :
           LET calls == CallsOf(m, {"createObjectURL", "click", "revokeObjectURL"})
               order == << "createObjectURL", "click", "revokeObjectURL" >>
           IN /\ IsPrefix(Ops(calls), order)
              /\ \A i \in 1..Len(calls) : calls[i].n = calls[1].n
              /\ Finished(m) => Len(calls) = 3
              /\ \A i \in Idx("createObjectURL", m) :
                 \A j \in Idx("revokeObjectURL", m) :
                 \A k \in (i + 1)..(j - 1) :
                     /\ log[k].mount = m
                     /\ log[k].op \in {"appendChild", "click", "removeChild"}
    /\ \A k \in 1..Len(downloads) : downloads[k].live

\* The second mount has clicked and is about to revoke its URL, which is
\* still live.
C5_Witness ==
    /\ mounts = 2
    /\ Cur = "revokeObjectURL"
    /\ Count("click", 2) = 1
    /\ \E e \in urlStore : e.url = url
    /\ Count("revokeObjectURL", 1) = 1

\* C6: the download carries the three values the host supplied at mount: the
\* Blob behind the anchor's href holds data with type content_type, the href
\* is the object URL the mount created, the download name is filename; args
\* of a later re-render change nothing of it.
C6_DownloadCarriesMountArgs ==
    \A k \in 1..Len(downloads) :
        LET d == downloads[k]
            a == mountArgs[d.mount]
        IN /\ d.live
           /\ d.blob = [parts |-> a.data, type |-> a.content_type]
           /\ d.download = a.filename
           /\ \E i \in Idx("createObjectURL", d.mount) : log[i].n = d.href

\* A mount has triggered its download and a re-render has since changed all
\* three args.
C6_Witness ==
    /\ mounts >= 1
    /\ Idle
    /\ renders >= 1
    /\ Cardinality(DownloadsOf(mounts)) = 1
    /\ args.data # mountArgs[mounts].data
    /\ args.filename # mountArgs[mounts].filename
    /\ args.content_type # mountArgs[mounts].content_type

HostOps == {"mount", "render", "unmount"}

TdOps ==
    {"createObjectURL", "appendChild", "click", "removeChild",
     "revokeObjectURL", "setComponentValue"}

\* C7: triggerDownload never waits, so every call it makes, the report
\* setComponentValue(1) included, is made before the effect calls
\* setFrameHeight(0), and no host event lies between the mount and that call.
C7_ReportBeforeFrameHeight ==
    /\ suspended = 0
    /\ Cur = "setFrameHeight" => promise = "fulfilled"
    /\ \A m \in 1..mounts :
       \A i \in Idx("setFrameHeight", m) :
           /\ \E j \in Idx("setComponentValue", m) : j < i
           /\ \A j \in 1..Len(log) :
                  (log[j].mount = m /\ log[j].op \in TdOps) => j < i
           /\ \A h \in Idx("mount", m) : \A j \in (h + 1)..i :
                  log[j].mount = m /\ log[j].op \notin HostOps

\* The second mount is about to request the frame height and has reported.
C7_Witness ==
    /\ mounts = 2
    /\ Cur = "setFrameHeight"
    /\ Count("setComponentValue", 2) = 1
    /\ Count("setFrameHeight", 1) = 1

\* C8: when a browser call of triggerDownload throws, the mount reports no
\* value, the exception does not leave the effect (the promise is rejected
\* and has no rejection handler), and the effect still requests height 0.
C8_ThrowNotReported ==
    /\ ~effectError
    /\ promise = "rejected" => "onRejected" \notin handlers
    /\ \A m \in 1..mounts :
           LET thrown == Idx("throw", m)
               heights == Idx("setFrameHeight", m)
           IN thrown # {} =>
               /\ \A i, j \in thrown : i = j
               /\ Idx("setComponentValue", m) = {}
               /\ m = mounts => promise = "rejected"
               /\ Finished(m) =>
                      /\ heights # {}
                      /\ \A i, j \in heights : i = j
                      /\ \A i \in heights :
                             /\ log[i].n = 0
                             /\ \A j \in thrown : j < i

\* The statements of triggerDownload that threw in mount m.
ThrownAt(m) == {TriggerDownloadBody[log[i].n] : i \in Idx("throw", m)}

\* Link.click() threw in the first mount and the Blob constructor in the
\* second; both effects have run to their end.
C8_Witness ==
    /\ mounts = 2
    /\ Idle
    /\ ThrownAt(1) = {"click"}
    /\ ThrownAt(2) = {"Blob"}
    /\ Count("setFrameHeight", 1) = 1
    /\ Count("setFrameHeight", 2) = 1

\* C9: no execution of a mount, one in which a call after createObjectURL
\* throws included, ends with its object URL live or its anchor attached.
C9_ReleasedOnEveryExecution ==
    Idle => /\ urlStore = {}
            /\ body = RootOnly

\* C10: the anchor is attached only around the click: within a mount the
\* order is appendChild, click, removeChild, revokeObjectURL; the anchor is in
\* document.body at the click; when the report is made document.body is as it
\* was before the mount; and no anchor remains when no mount is running.
C10_AnchorTransient ==
    /\ \A m \in 1..mounts :
           LET calls == CallsOf(m, {"appendChild", "click", "removeChild",
                                    "revokeObjectURL"})
               order == << "appendChild", "click", "removeChild",
                           "revokeObjectURL" >>
           IN /\ IsPrefix(Ops(calls), order)
              /\ Finished(m) => Len(calls) = 4
    /\ \A k \in 1..Len(downloads) : downloads[k].attached
    /\ (\E i \in 1..Len(body) : body[i].id # 0) => Cur \in {"click", "removeChild"}
    /\ Cur = "setComponentValue" => body = bodyBefore
    /\ Idle => body = RootOnly

\* The second mount is about to report: its anchor was attached, clicked and
\* removed, and document.body is as before.
C10_Witness ==
    /\ mounts = 2
    /\ Cur = "setComponentValue"
    /\ Count("appendChild", 2) = 1
    /\ Count("removeChild", 2) = 1
    /\ Count("removeChild", 1) = 1
    /\ body = bodyBefore

====
